---- MODULE Spec2Model ----
(***************************************************************************)
(* A model of the debian-control-file parsers: the control-file tokenizer  *)
(* (control_file.rs), the typed fields (copyright_file/fields.rs) and the  *)
(* paragraph and document assemblers (copyright_file/mod.rs).              *)
(*                                                                         *)
(* Text is a sequence of one-character strings.  Every parser is an        *)
(* operator from the input to a parse result [ok, rest, out], as the nom   *)
(* combinators of the source compute it: ok is FALSE for nom's Err::Error, *)
(* rest is the unconsumed input and out the parser's output.               *)
(***************************************************************************)
EXTENDS Integers, Sequences, FiniteSets, TLC

VARIABLES
    input,      \* the borrowed, read-only text buffer handed to the parser
    called,     \* the parser that was applied to it ("none" before the call)
    arg,        \* the name the parser was built for (named_* parsers), else <<>>
    result      \* what the parser returned

vars == <<input, called, arg, result>>

-----------------------------------------------------------------------------
(* Characters and slices                                                   *)

SP == " "
TAB == "\t"
NL == "\n"
CR == "\r"
DOT == "."
COLON == ":"
DASH == "-"

Letters ==
    {"a","b","c","d","e","f","g","h","i","j","k","l","m",
     "n","o","p","q","r","s","t","u","v","w","x","y","z",
     "A","B","C","D","E","F","G","H","I","J","K","L","M",
     "N","O","P","Q","R","S","T","U","V","W","X","Y","Z"}

Digits == {"0","1","2","3","4","5","6","7","8","9"}

\* nom's AsChar::is_alphanum
AlphaNum == Letters \cup Digits

\* nom's space0/space1 accept the space and the tab
SpaceChars == {SP, TAB}

Take(s, n) == SubSeq(s, 1, n)
Drop(s, n) == SubSeq(s, n + 1, Len(s))

StartsWith(s, t) == Len(s) >= Len(t) /\ Take(s, Len(t)) = t

\* length of the longest prefix of s whose characters are all in S
RECURSIVE SpanIn(_, _)
SpanIn(S, s) ==
    IF s # <<>> /\ Head(s) \in S THEN 1 + SpanIn(S, Tail(s)) ELSE 0

\* length of the longest prefix of s with no character in S
RECURSIVE SpanNotIn(_, _)
SpanNotIn(S, s) ==
    IF s # <<>> /\ Head(s) \notin S THEN 1 + SpanNotIn(S, Tail(s)) ELSE 0

RECURSIVE Flatten(_)
Flatten(ss) == IF ss = <<>> THEN <<>> ELSE Head(ss) \o Flatten(Tail(ss))

Min(a, b) == IF a <= b THEN a ELSE b

Spaces(n) == [j \in 1..n |-> SP]

-----------------------------------------------------------------------------
(* Parse results                                                           *)

Ok(rest, out) == [ok |-> TRUE, rest |-> rest, out |-> out]
Err == [ok |-> FALSE, rest |-> <<>>, out |-> <<>>]

\* nom's recognize: the slice of i consumed on the way to rest
Recognized(i, rest) == Take(i, Len(i) - Len(rest))

\* sequencing, as in nom's pair, preceded and tuple: the result v of the first
\* parser is computed once and handed to what follows
Then(v, F(_)) == CHOOSE r \in {F(x) : x \in {v}} : TRUE

-----------------------------------------------------------------------------
(* nom primitives used by the source                                       *)

tag(t, i) == IF StartsWith(i, t) THEN Ok(Drop(i, Len(t)), t) ELSE Err

space0(i) == Then(SpanIn(SpaceChars, i), LAMBDA n : Ok(Drop(i, n), Take(i, n)))

space1(i) ==
    Then(SpanIn(SpaceChars, i), LAMBDA n :
        IF n >= 1 THEN Ok(Drop(i, n), Take(i, n)) ELSE Err)

eof(i) == IF i = <<>> THEN Ok(i, <<>>) ELSE Err

line_ending(i) ==
    IF StartsWith(i, <<NL>>) THEN Ok(Drop(i, 1), <<NL>>)
    ELSE IF StartsWith(i, <<CR, NL>>) THEN Ok(Drop(i, 2), <<CR, NL>>)
    ELSE Err

\* nom's not_line_ending: up to the first \n or \r\n; a lone \r is an error
not_line_ending(i) ==
    Then(SpanNotIn({NL, CR}, i), LAMBDA n :
        IF n < Len(i) /\ i[n + 1] = CR /\ ~StartsWith(Drop(i, n), <<CR, NL>>)
        THEN Err
        ELSE Ok(Drop(i, n), Take(i, n)))

\* nom's take_while_m_n(m, n, |c| c == ' ')
take_while_m_n(m, n, S, i) ==
    Then(SpanIn(S, i), LAMBDA k :
        IF k >= m THEN Ok(Drop(i, Min(k, n)), Take(i, Min(k, n))) ELSE Err)

\* nom's opt: an error of the parser becomes None and consumes nothing
Some(v) == [some |-> TRUE, val |-> v]
None == [some |-> FALSE, val |-> <<>>]

opt(r, i) == IF r.ok THEN Ok(r.rest, Some(r.out)) ELSE Ok(i, None)

-----------------------------------------------------------------------------
(* control_file.rs                                                         *)

field_name(i) ==
    Then(SpanIn(AlphaNum, i), LAMBDA n1 :
    Then(n1 + SpanIn(AlphaNum \cup {DASH}, Drop(i, n1)), LAMBDA n :
        IF n1 >= 1 /\ n < Len(i) /\ i[n + 1] = COLON
        THEN Ok(Drop(i, n + 1), Take(i, n))
        ELSE Err))

my_non_line_ending(i) ==
    Then(SpanNotIn({NL, CR}, i), LAMBDA n : Ok(Drop(i, n), Take(i, n)))

end_of_line_or_string(i) ==
    IF i = <<>> THEN eof(i) ELSE line_ending(i)

line(i) ==
    Then(my_non_line_ending(i), LAMBDA a :
    Then(end_of_line_or_string(a.rest), LAMBDA b :
        IF b.ok THEN Ok(b.rest, Recognized(i, b.rest)) ELSE Err))

rest_of_line(i) ==
    Then(opt(not_line_ending(i), i), LAMBDA a :
    Then(end_of_line_or_string(a.rest), LAMBDA b :
        IF b.ok THEN Ok(b.rest, Recognized(i, b.rest)) ELSE Err))

continuation_line(i) ==
    Then(space1(i), LAMBDA a :
        IF ~a.ok THEN Err
        ELSE Then(my_non_line_ending(a.rest), LAMBDA b :
             Then(end_of_line_or_string(b.rest), LAMBDA c :
                 IF c.ok THEN Ok(c.rest, Recognized(i, c.rest)) ELSE Err)))

\* many0(continuation_line): the input left after the run of continuation lines
RECURSIVE many0_continuation_line(_)
many0_continuation_line(i) ==
    Then(continuation_line(i), LAMBDA a :
        IF a.ok /\ Len(a.rest) < Len(i) THEN many0_continuation_line(a.rest) ELSE i)

\* recognize(pair(rest_of_line, many0(continuation_line)))
value_lines(i) ==
    Then(rest_of_line(i), LAMBDA c :
        IF ~c.ok THEN Err
        ELSE Then(many0_continuation_line(c.rest), LAMBDA r :
                 Ok(r, Recognized(i, r))))

field_pair(i) ==
    Then(field_name(i), LAMBDA a :
        IF ~a.ok THEN Err
        ELSE Then(space0(a.rest), LAMBDA b :
             Then(value_lines(b.rest), LAMBDA v :
                 IF v.ok THEN Ok(v.rest, <<a.out, v.out>>) ELSE Err)))

field_string(i) ==
    Then(field_pair(i), LAMBDA a :
        IF a.ok THEN Ok(a.rest, Recognized(i, a.rest)) ELSE Err)

\* map_parser(field_name, tag(name)): tag is applied to the name field_name
\* returned, and what tag leaves of that name is dropped
specific_field_name(name, i) ==
    Then(field_name(i), LAMBDA a :
        IF a.ok /\ tag(name, a.out).ok THEN Ok(a.rest, <<>>) ELSE Err)

\* as named_single_line_field, but the value stops before the line ending
named_single_line_field_no_terminator(name, i) ==
    Then(specific_field_name(name, i), LAMBDA a :
        IF ~a.ok THEN Err
        ELSE Then(space0(a.rest), LAMBDA b :
             Then(rest_of_line(b.rest), LAMBDA c :
                 IF c.ok THEN Ok(c.rest, my_non_line_ending(b.rest).out) ELSE Err)))

named_single_line_field(name, i) ==
    Then(specific_field_name(name, i), LAMBDA a :
        IF ~a.ok THEN Err
        ELSE Then(space0(a.rest), LAMBDA b : rest_of_line(b.rest)))

named_multi_line_field(name, i) ==
    Then(specific_field_name(name, i), LAMBDA a :
        IF ~a.ok THEN Err
        ELSE Then(space0(a.rest), LAMBDA b : value_lines(b.rest)))

\* as blank_line_escape, but for a line indented by exactly one space
blank_line_escape_one_space(i) ==
    Then(tag(<<SP>>, i), LAMBDA sp :
        IF ~sp.ok THEN Err
        ELSE Then(tag(<<DOT>>, sp.rest), LAMBDA dot :
                 IF ~dot.ok THEN Err ELSE end_of_line_or_string(dot.rest)))

\* preceded(pair(space1, tag(".")), end_of_line_or_string): the blank-line escape
blank_line_escape(i) ==
    Then(space1(i), LAMBDA sp :
        IF ~sp.ok THEN Err
        ELSE Then(tag(<<DOT>>, sp.rest), LAMBDA dot :
                 IF ~dot.ok THEN Err ELSE end_of_line_or_string(dot.rest)))

\* as take_indent, but every leading space is taken
take_indent_all_spaces(indent, i) == space1(i)

\* value((), tag(indent)): exactly the indent of the first continuation line
take_indent(indent, i) == tag(indent, i)

\* value((), take_while_m_n(1, max_indent, |c| c == ' '))
take_up_to_max_indent(max_indent, i) == take_while_m_n(1, max_indent, {SP}, i)

\* alt((take_indent, take_up_to_max_indent))
strip_indent(indent, i) ==
    Then(take_indent(indent, i), LAMBDA exact :
        IF exact.ok THEN exact ELSE take_up_to_max_indent(Len(indent), i))

\* one cleaned continuation line: the alt of clean_continuation_lines
clean_one_line(indent, i) ==
    Then(blank_line_escape(i), LAMBDA blank :
        IF blank.ok THEN blank
        ELSE Then(strip_indent(indent, i), LAMBDA stripped :
                 IF stripped.ok THEN rest_of_line(stripped.rest) ELSE Err))

\* many1's loop after its first element
RECURSIVE many0_clean_one_line(_, _, _)
many0_clean_one_line(indent, i, acc) ==
    Then(clean_one_line(indent, i), LAMBDA a :
        IF ~a.ok THEN Ok(i, acc)
        ELSE IF Len(a.rest) = Len(i) THEN Err
        ELSE many0_clean_one_line(indent, a.rest, Append(acc, a.out)))

clean_continuation_lines(indent, i) ==
    Then(clean_one_line(indent, i), LAMBDA a :
        IF a.ok THEN many0_clean_one_line(indent, a.rest, <<a.out>>) ELSE Err)

clean_multiline(i) ==
    Then(line(i), LAMBDA first :
        IF ~first.ok THEN Err
        ELSE Then(space1(first.rest), LAMBDA indent :           \* peek(space1)
                 IF ~indent.ok THEN Err
                 ELSE Then(clean_continuation_lines(indent.out, first.rest), LAMBDA v :
                          IF v.ok THEN Ok(v.rest, <<first.out>> \o v.out) ELSE Err)))

-----------------------------------------------------------------------------
(* copyright_file/fields.rs                                                *)

\* impl FieldName for T: const NAME
NAME(T) ==
    CASE T = "Format" -> <<"F","o","r","m","a","t">>
      [] T = "UpstreamName" -> <<"U","p","s","t","r","e","a","m","-","N","a","m","e">>
      [] T = "UpstreamContact" ->
            <<"U","p","s","t","r","e","a","m","-","C","o","n","t","a","c","t">>
      [] T = "Source" -> <<"S","o","u","r","c","e">>
      [] T = "Disclaimer" -> <<"D","i","s","c","l","a","i","m","e","r">>
      [] T = "Comment" -> <<"C","o","m","m","e","n","t">>
      [] T = "License" -> <<"L","i","c","e","n","s","e">>
      [] T = "Copyright" -> <<"C","o","p","y","r","i","g","h","t">>
      [] T = "Files" -> <<"F","i","l","e","s">>

\* impl SingleLineField for T
SingleLineField == {"Format", "UpstreamName", "UpstreamContact", "Source"}

\* the fields parsed by parse_field_with_trimmed_list
TrimmedListField == {"Copyright", "Files"}

\* control_file::multi_line_field::<T>: the raw value of the multi-line field
\* named T::NAME (first line and continuation lines, as one slice)
multi_line_field(T, i) == Then(NAME(T), LAMBDA name : named_multi_line_field(name, i))

\* the characters str::trim removes
WhiteSpace == {SP, TAB, NL, CR}

RECURSIVE trim_end(_)
trim_end(s) ==
    IF s # <<>> /\ s[Len(s)] \in WhiteSpace THEN trim_end(Take(s, Len(s) - 1)) ELSE s

trim(s) == trim_end(Drop(s, SpanIn(WhiteSpace, s)))

\* many1's loop after its first element
RECURSIVE many0_multi_line_field(_, _, _)
many0_multi_line_field(T, i, acc) ==
    Then(multi_line_field(T, i), LAMBDA a :
        IF ~a.ok THEN Ok(i, acc)
        ELSE IF Len(a.rest) = Len(i) THEN Err
        ELSE many0_multi_line_field(T, a.rest, Append(acc, a.out)))

many1_multi_line_field(T, i) ==
    Then(multi_line_field(T, i), LAMBDA a :
        IF a.ok THEN many0_multi_line_field(T, a.rest, <<a.out>>) ELSE Err)

\* .map(|s| s.trim()).filter(|s| !s.is_empty()) over the elements many1 returned
RECURSIVE trimmed_non_empty(_)
trimmed_non_empty(ls) ==
    IF ls = <<>> THEN <<>>
    ELSE Then(trim(Head(ls)), LAMBDA t :
             (IF t = <<>> THEN <<>> ELSE <<t>>) \o trimmed_non_empty(Tail(ls)))

parse_field_with_trimmed_list(T, i) ==
    Then(many1_multi_line_field(T, i), LAMBDA a :
        IF a.ok THEN Ok(a.rest, trimmed_non_empty(a.out)) ELSE Err)

\* impl<T: SingleLineField + From<String>> ParseField for T
single_line_field(T, i) ==
    Then(NAME(T), LAMBDA name : named_single_line_field(name, i))

\* ParseField::parse of the type T
parse(T, i) ==
    IF T \in SingleLineField THEN single_line_field(T, i)
    ELSE IF T \in TrimmedListField THEN parse_field_with_trimmed_list(T, i)
    ELSE multi_line_field(T, i)

-----------------------------------------------------------------------------
(* copyright_file/mod.rs                                                   *)

\* a member of the tuple handed to permutation: T::parse or opt(T::parse)
Mandatory(T) == [type |-> T, optional |-> FALSE]
Optional(T) == [type |-> T, optional |-> TRUE]

\* as apply, but without opt: a member whose field is not at the current
\* position fails
apply_without_opt(p, i) == parse(p.type, i)

\* a member of the tuple applied at the current position
apply(p, i) ==
    Then(parse(p.type, i), LAMBDA r : IF p.optional THEN opt(r, i) ELSE r)

\* the first parser of the tuple, from the k-th on, that has no result yet and
\* succeeds on i, with what it returned; 0 when there is none
RECURSIVE first_success(_, _, _, _)
first_success(ps, i, res, k) ==
    IF k > Len(ps) THEN [index |-> 0, r |-> Err]
    ELSE IF res[k] # <<>> THEN first_success(ps, i, res, k + 1)
    ELSE Then(apply(ps[k], i), LAMBDA r :
             IF r.ok THEN [index |-> k, r |-> r]
             ELSE first_success(ps, i, res, k + 1))

\* as permutation, but the parsers are applied once each, in the order of the tuple
RECURSIVE tuple_in_order(_, _, _)
tuple_in_order(ps, i, res) ==
    IF \A k \in 1..Len(ps) : res[k] # <<>>
    THEN Ok(i, [k \in 1..Len(ps) |-> res[k][1]])
    ELSE Then(CHOOSE k \in 1..Len(ps) : res[k] = <<>> /\ \A m \in 1..(k - 1) : res[m] # <<>>,
              LAMBDA k :
                  Then(apply(ps[k], i), LAMBDA r :
                      IF r.ok THEN tuple_in_order(ps, r.rest, [res EXCEPT ![k] = <<r.out>>])
                      ELSE Err))

\* nom's permutation: in each round the first parser of the tuple that has no
\* result yet and succeeds at the current position takes its result and the
\* round restarts; it ends when every parser has a result, and fails when
\* none of the remaining ones succeeds.  res[k] is <<>> until parser k has a
\* result, and <<its output>> afterwards.
RECURSIVE permutation(_, _, _)
permutation(ps, i, res) ==
    IF \A k \in 1..Len(ps) : res[k] # <<>>
    THEN Ok(i, [k \in 1..Len(ps) |-> res[k][1]])
    ELSE Then(first_success(ps, i, res, 1), LAMBDA s :
             IF s.index = 0 THEN Err
             ELSE permutation(ps, s.r.rest, [res EXCEPT ![s.index] = <<s.r.out>>]))

NoResults(ps) == [k \in 1..Len(ps) |-> <<>>]

HeaderFields ==
    <<Mandatory("Format"), Optional("UpstreamName"), Optional("UpstreamContact"),
      Optional("Source"), Optional("Disclaimer"), Optional("Comment"),
      Optional("License"), Optional("Copyright")>>

header_paragraph(i) ==
    Then(permutation(HeaderFields, i, NoResults(HeaderFields)), LAMBDA r :
        IF r.ok
        THEN Ok(r.rest, [format |-> r.out[1],
                         upstream_name |-> r.out[2],
                         upstream_contact |-> r.out[3],
                         source |-> r.out[4],
                         disclaimer |-> r.out[5],
                         comment |-> r.out[6],
                         license |-> r.out[7],
                         copyright |-> r.out[8]])
        ELSE Err)

FilesFields ==
    <<Mandatory("Files"), Mandatory("Copyright"), Mandatory("License"),
      Optional("Comment")>>

files_paragraph(i) ==
    Then(permutation(FilesFields, i, NoResults(FilesFields)), LAMBDA r :
        IF r.ok
        THEN Ok(r.rest, [files |-> r.out[1],
                         copyright |-> r.out[2],
                         license |-> r.out[3],
                         comment |-> r.out[4]])
        ELSE Err)

\* control_file::cleaned_multiline: the logical lines of a folded value; with no
\* continuation line the result is just the first line
cleaned_multiline(i) ==
    Then(line(i), LAMBDA first :
        IF first.ok /\ ~space1(first.rest).ok
        THEN Ok(first.rest, <<first.out>>)
        ELSE clean_multiline(i))

\* .map(|line| line.trim_end()).collect::<Vec<_>>().join("\n")
RECURSIVE join_trim_end(_)
join_trim_end(ls) ==
    IF ls = <<>> THEN <<>>
    ELSE IF Len(ls) = 1 THEN trim_end(Head(ls))
    ELSE trim_end(Head(ls)) \o <<NL>> \o join_trim_end(Tail(ls))

license_detail_paragraph(i) ==
    Then(named_multi_line_field(NAME("License"), i), LAMBDA a :
        IF ~a.ok THEN Err
        ELSE Then(cleaned_multiline(a.out), LAMBDA b :          \* map_parser
                 IF b.ok
                 THEN Ok(a.rest, [name |-> Head(b.out),
                                  text |-> join_trim_end(Tail(b.out))])
                 ELSE Err))

\* many0(pair(space0, line_ending)): the input after the blank lines
RECURSIVE many0_blank_line(_)
many0_blank_line(i) ==
    Then(space0(i), LAMBDA a :
    Then(line_ending(a.rest), LAMBDA b :
        IF b.ok THEN many0_blank_line(b.rest) ELSE i))

\* alt((map(files_paragraph, Files), map(license_detail_paragraph, LicenseDetail)))
files_or_license_detail(j) ==
    Then(files_paragraph(j), LAMBDA f :
        IF f.ok THEN Ok(f.rest, [variant |-> "Files", paragraph |-> f.out])
        ELSE Then(license_detail_paragraph(j), LAMBDA l :
                 IF l.ok
                 THEN Ok(l.rest, [variant |-> "LicenseDetail", paragraph |-> l.out])
                 ELSE Err))

body_paragraph(i) == Then(many0_blank_line(i), LAMBDA j : files_or_license_detail(j))

RECURSIVE many0_body_paragraph(_, _)
many0_body_paragraph(i, acc) ==
    Then(body_paragraph(i), LAMBDA a :
        IF ~a.ok THEN Ok(i, acc)
        ELSE IF Len(a.rest) = Len(i) THEN Err
        ELSE many0_body_paragraph(a.rest, Append(acc, a.out)))

copyright_file(i) ==
    Then(many0_blank_line(i), LAMBDA j :
    Then(header_paragraph(j), LAMBDA h :
        IF ~h.ok THEN Err
        ELSE Then(many0_body_paragraph(h.rest, <<>>), LAMBDA b :
                 IF ~b.ok THEN Err
                 ELSE Then(space0(b.rest), LAMBDA t :
                          Ok(t.rest, [header_paragraph |-> h.out,
                                      body_paragraphs |-> b.out])))))

-----------------------------------------------------------------------------
(* Folded blocks handed to clean_multiline                                 *)

MaxIndent == 4       \* leading spaces of a continuation line: 1..MaxIndent
MaxCont == 3         \* continuation lines of a block: 0..MaxCont

FirstLines == {<<"0">>}
Contents == {<<"a">>, <<"b">>, <<DOT>>, <<DOT, "a">>}
Terminators == {<<NL>>, <<>>}

\* a continuation line without its terminator
ContLine(k, c) == Spaces(k) \o c
ContLines == {ContLine(k, c) : k \in 1..MaxIndent, c \in Contents}

\* the lines joined by \n, the last one ended by term
RECURSIVE JoinLines(_, _)
JoinLines(ls, term) ==
    IF Len(ls) = 1 THEN Head(ls) \o term
    ELSE Head(ls) \o <<NL>> \o JoinLines(Tail(ls), term)

Blocks ==
    {JoinLines(<<f>> \o cs, t) :
        f \in FirstLines,
        cs \in UNION {[1..n -> ContLines] : n \in 0..MaxCont},
        t \in Terminators}

\* a value with no continuation line at all
SingleLines ==
    {f \o t : f \in {<<"0">>, <<"a", SP, "b">>, <<DOT>>, <<>>}, t \in Terminators}

InitClean ==
    /\ input \in Blocks \cup SingleLines
    /\ called = "none"
    /\ arg = <<>>
    /\ result = Err

CallCleanMultiline ==
    /\ called = "none"
    /\ called' = "clean_multiline"
    /\ result' = clean_multiline(input)
    /\ UNCHANGED <<input, arg>>

NextClean == CallCleanMultiline

SpecClean == InitClean /\ [][NextClean]_vars

-----------------------------------------------------------------------------
(* The physical lines of a text, for stating the claims                    *)

\* the lines of s, each with its \n when it has one
RECURSIVE PhysLines(_)
PhysLines(s) ==
    IF s = <<>> THEN <<>>
    ELSE LET n == SpanNotIn({NL}, s) IN
         IF n < Len(s) THEN <<Take(s, n + 1)>> \o PhysLines(Drop(s, n + 1))
         ELSE <<s>>

LineTerm(l) == IF l # <<>> /\ l[Len(l)] = NL THEN <<NL>> ELSE <<>>
LineText(l) == Take(l, Len(l) - Len(LineTerm(l)))
LeadSpaces(l) == SpanIn({SP}, LineText(l))
LineContent(l) == Drop(LineText(l), LeadSpaces(l))

CleanDone == called = "clean_multiline"

-----------------------------------------------------------------------------
(* C6: cleaning a value that has no continuation lines succeeds and        *)
(* returns exactly the one-element sequence holding that line unchanged.   *)
C6_SingleLineCleansToItself ==
    (CleanDone /\ Len(PhysLines(input)) = 1)
        => (result.ok /\ result.out = <<input>>)

(* C7: every continuation line made of one or more leading spaces, a       *)
(* single "." and the terminator (or end of input) is cleaned to an empty  *)
(* logical line that keeps only its terminator, whatever its indentation   *)
(* relative to the first continuation line; a line whose content is "."    *)
(* followed by anything else keeps its content.                            *)
C7_BlankLineEscape ==
    CleanDone =>
        LET ls == PhysLines(input) IN
        \A j \in 2..Len(ls) :
            LET c == LineContent(ls[j]) IN
            /\ c = <<DOT>> =>
                  (result.ok /\ Len(result.out) >= j /\ result.out[j] = LineTerm(ls[j]))
            /\ (Len(c) >= 2 /\ c[1] = DOT) =>
                  (/\ result.ok /\ Len(result.out) >= j
                   /\ Len(result.out[j]) >= Len(c) + Len(LineTerm(ls[j]))
                   /\ Drop(result.out[j], Len(result.out[j]) - Len(c) - Len(LineTerm(ls[j])))
                         = c \o LineTerm(ls[j]))

\* the block of the source's test: a "." line indented deeper than the block,
\* cleaned to ["0\n", "a\n", "\n", "b"]
C7_Witness ==
    /\ CleanDone
    /\ input = <<"0", NL, SP, SP, "a", NL, SP, SP, SP, SP, DOT, NL, SP, SP, "b">>
    /\ result.ok
    /\ result.out = <<<<"0", NL>>, <<"a", NL>>, <<NL>>, <<"b">>>>

\* what C8 says a later continuation line with k leading spaces and content c
\* cleans to, when the first continuation line has n leading spaces
Expected(n, l) ==
    LET k == LeadSpaces(l) IN
    Spaces(IF k > n THEN k - n ELSE 0) \o LineContent(l) \o LineTerm(l)

(* C8 as stated: every later continuation line with k >= 1 leading spaces  *)
(* and non-space content c cleans to c when k <= n and to k-n spaces and c *)
(* when k > n, n being the indent of the first continuation line.          *)
C8_AsStated ==
    CleanDone =>
        LET ls == PhysLines(input) IN
        \A j \in 3..Len(ls) :
            LineContent(ls[j]) # <<>> =>
                (/\ result.ok /\ Len(result.out) >= j
                 /\ result.out[j] = Expected(LeadSpaces(ls[2]), ls[j]))

(* C8 amended: the same for every content c other than the lone "." of the *)
(* blank-line escape.                                                      *)
C8_IndentTolerance ==
    CleanDone =>
        LET ls == PhysLines(input) IN
        \A j \in 3..Len(ls) :
            (LineContent(ls[j]) # <<>> /\ LineContent(ls[j]) # <<DOT>>) =>
                (/\ result.ok /\ Len(result.out) >= j
                 /\ result.out[j] = Expected(LeadSpaces(ls[2]), ls[j]))

\* a block with a line indented less and a line indented more than the first
C8_Witness ==
    /\ CleanDone
    /\ result.ok
    /\ LET ls == PhysLines(input) IN
        /\ Len(ls) = 4
        /\ LeadSpaces(ls[2]) = 2
        /\ LeadSpaces(ls[3]) = 1 /\ LineContent(ls[3]) = <<"a">>
        /\ LeadSpaces(ls[4]) = 4 /\ LineContent(ls[4]) = <<DOT, "a">>
        /\ result.out[3] = <<"a", NL>>
        /\ result.out[4] = <<SP, SP, DOT, "a">> \o LineTerm(ls[4])

-----------------------------------------------------------------------------
(* Field lines handed to the named field parsers                           *)

MaxNameLen == 2      \* characters of a generated field name: 1..MaxNameLen
MaxValueLen == 2     \* characters of a generated value: 0..MaxValueLen

NameChars == {"F", "f", DASH}
ValueChars == {"v", SP, COLON}

SeqsUpTo(S, lo, hi) == UNION {[1..n -> S] : n \in lo..hi}

\* names of the syntax [A-Za-z0-9][A-Za-z0-9-]*
GeneratedNames == {n \in SeqsUpTo(NameChars, 1, MaxNameLen) : n[1] \in AlphaNum}

\* names that begin with a recognised name
FilesExcluded == <<"F","i","l","e","s","-","E","x","c","l","u","d","e","d">>
LicenseNote == <<"L","i","c","e","n","s","e","-","N","o","t","e">>

FieldNames ==
    GeneratedNames \cup {NAME("Files"), FilesExcluded, NAME("License"), LicenseNote}

Values == SeqsUpTo(ValueChars, 0, MaxValueLen)

\* what follows the field line: nothing, or one continuation line
FieldTails == {<<>>, <<SP, "c", NL>>}

FieldTexts ==
    {n \o <<COLON>> \o sep \o v \o <<NL>> \o t :
        n \in FieldNames, sep \in {<<>>, <<SP>>}, v \in Values, t \in FieldTails}
    \cup
    {n \o <<COLON>> \o sep \o v :
        n \in FieldNames, sep \in {<<>>, <<SP>>}, v \in Values}

InitField ==
    /\ input \in FieldTexts
    /\ called = "none"
    /\ arg = <<>>
    /\ result = Err

CallNamedSingleLineField ==
    /\ called = "none"
    /\ \E name \in FieldNames :
        /\ arg' = name
        /\ result' = named_single_line_field(name, input)
    /\ called' = "named_single_line_field"
    /\ UNCHANGED input

CallNamedMultiLineField ==
    /\ called = "none"
    /\ \E name \in FieldNames :
        /\ arg' = name
        /\ result' = named_multi_line_field(name, input)
    /\ called' = "named_multi_line_field"
    /\ UNCHANGED input

NextField == CallNamedSingleLineField \/ CallNamedMultiLineField

SpecField == InitField /\ [][NextField]_vars

\* the name of the field the input starts with, as the tokenizer reads it
InputFieldName == field_name(input).out

(* C3: the parsers built by named_single_line_field(N) and                 *)
(* named_multi_line_field(N) succeed only on a field whose name is exactly *)
(* N; a field whose name merely begins with N is rejected.                 *)
C3_ExactFieldNameMatch ==
    (called \in {"named_single_line_field", "named_multi_line_field"} /\ result.ok)
        => InputFieldName = arg

\* the input is arg, ":", one space, a value V without terminator, then \n or
\* the end of input
IsNameSpaceValue ==
    /\ StartsWith(input, arg \o <<COLON, SP>>)
    /\ LET rest == Drop(input, Len(arg) + 2) IN
        Len(PhysLines(rest)) <= 1

ValueWithTerminator == Drop(input, Len(arg) + 2)

(* C9 as stated: for every field name N and single-line value V,           *)
(* named_single_line_field(N) on N, ":", one space, V and the terminator   *)
(* (or the end of input) succeeds, returns exactly V followed by its       *)
(* terminator and leaves no input.                                         *)
C9_AsStated ==
    (called = "named_single_line_field" /\ IsNameSpaceValue)
        => (/\ result.ok
            /\ result.out = ValueWithTerminator
            /\ result.rest = <<>>)

(* C9 amended: the same for every value V that does not begin with a space *)
(* or a tab (the parser skips all horizontal whitespace after the colon).  *)
C9_SingleLineRoundTrip ==
    (/\ called = "named_single_line_field"
     /\ IsNameSpaceValue
     /\ ~(ValueWithTerminator # <<>> /\ ValueWithTerminator[1] \in SpaceChars))
        => (/\ result.ok
            /\ result.out = ValueWithTerminator
            /\ result.rest = <<>>)

\* "License: v:\n" parsed by the License parser
C9_Witness ==
    /\ called = "named_single_line_field"
    /\ arg = NAME("License")
    /\ input = NAME("License") \o <<COLON, SP, "v", COLON, NL>>
    /\ result.ok
    /\ result.out = <<"v", COLON, NL>>
    /\ result.rest = <<>>

-----------------------------------------------------------------------------
(* List-valued fields handed to Files::parse and Copyright::parse          *)

MaxListCont == 2     \* continuation lines of a list-valued field: 0..MaxListCont

ListEntries == {<<"a">>, <<"b">>, <<>>}

ListContLines == {Spaces(k) \o e : k \in 1..MaxIndent, e \in ListEntries}

\* one field: the name, ":", a space, the first line and the continuation lines
ListFields ==
    {NAME(T) \o <<COLON, SP>> \o JoinLines(<<f>> \o cs, t) :
        T \in TrimmedListField,
        f \in ListEntries,
        cs \in UNION {[1..n -> ListContLines] : n \in 0..MaxListCont},
        t \in Terminators}

InitList ==
    /\ input \in ListFields
    /\ called = "none"
    /\ arg = <<>>
    /\ result = Err

CallParseTrimmedList ==
    /\ called = "none"
    /\ \E T \in TrimmedListField :
        /\ arg' = NAME(T)
        /\ result' = parse(T, input)
    /\ called' = "parse"
    /\ UNCHANGED input

NextList == CallParseTrimmedList

SpecList == InitList /\ [][NextList]_vars

\* the physical lines of the field's value, trimmed, the blank ones dropped
TrimmedValueLines == trimmed_non_empty(PhysLines(Drop(input, Len(arg) + 1)))

(* C5: for a single Files (or Copyright) field with a first line and k     *)
(* continuation lines, Files::parse (Copyright::parse) returns exactly one *)
(* entry per non-blank physical line, each the trimmed line, in input      *)
(* order with duplicates preserved; no entry holds a line terminator.      *)
C5_ListSplitPerLine ==
    (called = "parse" /\ StartsWith(input, arg \o <<COLON>>))
        => (/\ result.ok
            /\ result.out = TrimmedValueLines
            /\ \A j \in 1..Len(result.out) :
                  \A k \in 1..Len(result.out[j]) : result.out[j][k] # NL)

-----------------------------------------------------------------------------
(* Header stanzas handed to header_paragraph                               *)

MaxOptional == 3     \* optional fields of a generated header stanza: 0..MaxOptional

HeaderTypes ==
    {"Format", "UpstreamName", "UpstreamContact", "Source", "Disclaimer",
     "Comment", "License", "Copyright"}

\* the one-word value each generated field carries
FieldValue(T) ==
    CASE T = "Format" -> <<"f">>
      [] T = "UpstreamName" -> <<"n">>
      [] T = "UpstreamContact" -> <<"m">>
      [] T = "Source" -> <<"s">>
      [] T = "Disclaimer" -> <<"d">>
      [] T = "Comment" -> <<"c">>
      [] T = "License" -> <<"l">>
      [] T = "Copyright" -> <<"y">>
      [] T = "Files" -> <<"p">>

FieldLine(T) == NAME(T) \o <<COLON, SP>> \o FieldValue(T) \o <<NL>>

RECURSIVE Stanza(_)
Stanza(ts) == IF ts = <<>> THEN <<>> ELSE FieldLine(Head(ts)) \o Stanza(Tail(ts))

Injective(f) == \A a, b \in DOMAIN f : f[a] = f[b] => a = b

\* every order of Format and at most MaxOptional distinct optional fields
HeaderOrders ==
    {ts \in SeqsUpTo(HeaderTypes, 1, MaxOptional + 1) :
        Injective(ts) /\ \E k \in DOMAIN ts : ts[k] = "Format"}

InitHeader ==
    /\ input \in {Stanza(ts) : ts \in HeaderOrders}
    /\ called = "none"
    /\ arg = <<>>
    /\ result = Err

CallHeaderParagraph ==
    /\ called = "none"
    /\ called' = "header_paragraph"
    /\ result' = header_paragraph(input)
    /\ UNCHANGED <<input, arg>>

NextHeader == CallHeaderParagraph

SpecHeader == InitHeader /\ [][NextHeader]_vars

\* the fields of a stanza, each as the text the tokenizer delimits
RECURSIVE FieldStrings(_)
FieldStrings(s) ==
    LET a == field_string(s) IN
    IF a.ok /\ Len(a.rest) < Len(s) THEN <<a.out>> \o FieldStrings(a.rest) ELSE <<>>

TypeNamed(n) == CHOOSE T \in HeaderTypes \cup {"Files"} : NAME(T) = n

\* the type of the field a field string holds
FieldType(t) == TypeNamed(field_name(t).out)

\* a header stanza: one Format field and optional header fields, each once
IsHeaderStanza(s) ==
    LET fs == FieldStrings(s) IN
    /\ Flatten(fs) = s
    /\ \A k \in DOMAIN fs : \E T \in HeaderTypes : NAME(T) = field_name(fs[k]).out
    /\ \A a, b \in DOMAIN fs : FieldType(fs[a]) = FieldType(fs[b]) => a = b
    /\ \E k \in DOMAIN fs : FieldType(fs[k]) = "Format"

\* the member of a HeaderParagraph that holds the field of type T
HeaderMember(h, T) ==
    CASE T = "Format" -> Some(h.format)
      [] T = "UpstreamName" -> h.upstream_name
      [] T = "UpstreamContact" -> h.upstream_contact
      [] T = "Source" -> h.source
      [] T = "Disclaimer" -> h.disclaimer
      [] T = "Comment" -> h.comment
      [] T = "License" -> h.license
      [] T = "Copyright" -> h.copyright

Reorderings(fs) ==
    {[k \in DOMAIN fs |-> fs[p[k]]] : p \in {q \in [DOMAIN fs -> DOMAIN fs] : Injective(q)}}

(* C1: for every header stanza of one Format field and any subset of the   *)
(* optional fields, header_paragraph succeeds, consumes the whole stanza,  *)
(* captures every present field, and returns the same HeaderParagraph for  *)
(* every reordering of the stanza's fields.                                *)
C1_HeaderFieldOrderInvariance ==
    (called = "header_paragraph" /\ IsHeaderStanza(input)) =>
        LET fs == FieldStrings(input) IN
        /\ result.ok
        /\ result.rest = <<>>
        /\ \A k \in DOMAIN fs :
              HeaderMember(result.out, FieldType(fs[k]))
                  = Some(parse(FieldType(fs[k]), fs[k]).out)
        /\ \A gs \in Reorderings(fs) :
              /\ header_paragraph(Flatten(gs)).ok
              /\ header_paragraph(Flatten(gs)).out = result.out

-----------------------------------------------------------------------------
(* Documents handed to copyright_file                                      *)

MaxStanzaFields == 3     \* fields of a generated body stanza: 1..MaxStanzaFields

\* a field no paragraph type recognises
UnknownLine == <<"X", COLON, SP, "x", NL>>

\* a License field with its text on continuation lines
LicenseTextLines == FieldLine("License") \o <<SP, "t", NL, SP, DOT, NL, SP, "u", NL>>

BodyLineKinds == {"Files", "Copyright", "License", "Comment", "LicenseText", "Unknown"}

BodyLine(K) ==
    IF K = "Unknown" THEN UnknownLine
    ELSE IF K = "LicenseText" THEN LicenseTextLines
    ELSE FieldLine(K)

RECURSIVE BodyStanza(_)
BodyStanza(ks) == IF ks = <<>> THEN <<>> ELSE BodyLine(Head(ks)) \o BodyStanza(Tail(ks))

BodyStanzas ==
    {BodyStanza(ks) : ks \in {q \in SeqsUpTo(BodyLineKinds, 1, MaxStanzaFields) : Injective(q)}}

FilesStanza == Stanza(<<"Files", "Copyright", "License">>)

\* no body; or one generated stanza after zero, one or two blank lines, with or
\* without a well-formed Files stanza after it
DocBodies ==
    {<<>>}
    \cup {sep \o b \o more :
            sep \in {<<>>, <<NL>>, <<NL, NL>>},
            b \in BodyStanzas,
            more \in {<<>>, <<NL>> \o FilesStanza}}

DocHeaders == {<<>>, FieldLine("Format"), FieldLine("Format") \o FieldLine("Comment")}

\* the end-to-end scenario of the format's documentation
ExampleDocument ==
    <<"F", "o", "r", "m", "a", "t", COLON, SP, "h", "t", "t", "p", "s",
        COLON, "/", "/", "w", "w", "w", DOT, "d", "e", "b", "i", "a", "n",
        DOT, "o", "r", "g", "/", "d", "o", "c", "/", "p", "a", "c", "k",
        "a", "g", "i", "n", "g", DASH, "m", "a", "n", "u", "a", "l", "s",
        "/", "c", "o", "p", "y", "r", "i", "g", "h", "t", DASH, "f", "o",
        "r", "m", "a", "t", "/", "1", DOT, "0", "/", NL>>
    \o <<NL>>
    \o <<"F", "i", "l", "e", "s", COLON, SP, "R", "E", "A", "D", "M", "E",
        DOT, "m", "d", NL>>
    \o <<"C", "o", "p", "y", "r", "i", "g", "h", "t", COLON, SP, "2", "0",
        "2", "0", ",", SP, "E", "x", "a", "m", "p", "l", "e", SP, "O", "r",
        "g", DOT, NL>>
    \o <<"L", "i", "c", "e", "n", "s", "e", COLON, SP, "M", "I", "T", NL>>

Documents ==
    {lead \o h \o b \o trail :
        lead \in {<<>>, <<NL>>},
        h \in DocHeaders,
        b \in DocBodies,
        trail \in {<<>>, <<NL>>, <<SP, SP>>}}
    \cup {ExampleDocument}

InitDoc ==
    /\ input \in Documents
    /\ called = "none"
    /\ arg = <<>>
    /\ result = Err

CallCopyrightFile ==
    /\ called = "none"
    /\ called' = "copyright_file"
    /\ result' = copyright_file(input)
    /\ UNCHANGED <<input, arg>>

NextDoc == CallCopyrightFile

SpecDoc == InitDoc /\ [][NextDoc]_vars

IsBlankLine(l) == SpanIn(SpaceChars, LineText(l)) = Len(LineText(l))

\* the stanzas of a text: its maximal runs of non-blank lines
RECURSIVE StanzasOfLines(_, _)
StanzasOfLines(ls, cur) ==
    IF ls = <<>> THEN (IF cur = <<>> THEN <<>> ELSE <<cur>>)
    ELSE IF IsBlankLine(Head(ls))
         THEN (IF cur = <<>> THEN <<>> ELSE <<cur>>) \o StanzasOfLines(Tail(ls), <<>>)
         ELSE StanzasOfLines(Tail(ls), cur \o Head(ls))

StanzasOf(s) == StanzasOfLines(PhysLines(s), <<>>)

\* the names of the fields of a stanza
FieldNamesOf(st) ==
    LET fs == FieldStrings(st) IN {field_name(fs[k]).out : k \in DOMAIN fs}

\* a body stanza with a Files field and no License field, or no Copyright field
HasIncompleteFilesStanza(s) ==
    LET sts == StanzasOf(s) IN
    \E k \in 2..Len(sts) :
        /\ NAME("Files") \in FieldNamesOf(sts[k])
        /\ \/ NAME("License") \notin FieldNamesOf(sts[k])
           \/ NAME("Copyright") \notin FieldNamesOf(sts[k])

DocDone == called = "copyright_file"

(* C2: whenever copyright_file succeeds, everything in the input except    *)
(* optional trailing whitespace was consumed as the header or as body      *)
(* paragraphs: nothing but white space is left; a document with a stanza   *)
(* of an unrecognised field, or with text after the last recognised        *)
(* paragraph, makes copyright_file fail.                                   *)
C2_NoSilentLeftovers ==
    (DocDone /\ result.ok) => trim(result.rest) = <<>>

(* C4: copyright_file fails on the empty input, and on every document      *)
(* whose body holds a Files stanza that lacks a License or a Copyright     *)
(* field.                                                                  *)
C4_MissingMandatoryFieldFails ==
    (DocDone /\ (input = <<>> \/ HasIncompleteFilesStanza(input))) => ~result.ok

\* the value of the field line l of name n: n, ":", one space, the value
ValueOfLine(n, l) == Drop(LineText(l), Len(n) + 2)

IsFieldLine(n, l) == StartsWith(l, n \o <<COLON, SP>>) /\ LineTerm(l) = <<NL>>

\* "Format: F", a blank line, then "Files: P", "Copyright: C", "License: L"
IsEndToEndDocument(s) ==
    LET ls == PhysLines(s) IN
    /\ Len(ls) = 5
    /\ IsFieldLine(NAME("Format"), ls[1])
    /\ ls[2] = <<NL>>
    /\ IsFieldLine(NAME("Files"), ls[3])
    /\ IsFieldLine(NAME("Copyright"), ls[4])
    /\ IsFieldLine(NAME("License"), ls[5])

(* C10: for "Format: F", a blank line and the stanza "Files: P",           *)
(* "Copyright: C", "License: L", copyright_file succeeds with format = F   *)
(* and exactly one body paragraph, of the Files variant, with              *)
(* files = [P], copyright = [C] and license = L.                           *)
C10_EndToEndValues ==
    (DocDone /\ IsEndToEndDocument(input)) =>
        LET ls == PhysLines(input) IN
        /\ result.ok
        /\ result.out.header_paragraph.format = ValueOfLine(NAME("Format"), ls[1])
        /\ Len(result.out.body_paragraphs) = 1
        /\ result.out.body_paragraphs[1].variant = "Files"
        /\ result.out.body_paragraphs[1].paragraph.files
              = <<ValueOfLine(NAME("Files"), ls[3])>>
        /\ result.out.body_paragraphs[1].paragraph.copyright
              = <<ValueOfLine(NAME("Copyright"), ls[4])>>
        /\ result.out.body_paragraphs[1].paragraph.license
              = ValueOfLine(NAME("License"), ls[5])

-----------------------------------------------------------------------------
(* Body stanzas handed to body_paragraph and files_paragraph                *)

MaxBodyFields == 4     \* fields of a stanza handed to the body parsers: 1..MaxBodyFields

\* a stanza of distinct kinds of field lines, after no or one blank line
BodyInputs ==
    {lead \o BodyStanza(ks) :
        lead \in {<<>>, <<NL>>},
        ks \in {q \in SeqsUpTo(BodyLineKinds, 1, MaxBodyFields) : Injective(q)}}

InitBody ==
    /\ input \in BodyInputs
    /\ called = "none"
    /\ arg = <<>>
    /\ result = Err

CallBodyParagraph ==
    /\ called = "none"
    /\ called' = "body_paragraph"
    /\ result' = body_paragraph(input)
    /\ UNCHANGED <<input, arg>>

CallFilesParagraph ==
    /\ called = "none"
    /\ called' = "files_paragraph"
    /\ result' = files_paragraph(input)
    /\ UNCHANGED <<input, arg>>

NextBody == CallBodyParagraph \/ CallFilesParagraph

SpecBody == InitBody /\ [][NextBody]_vars

\* the stanza the input holds after its leading blank lines
InputStanza == Drop(input, SpanIn({NL}, input))

\* the names of the fields of a stanza, in their physical order
FieldNameSeq(st) ==
    LET fs == FieldStrings(st) IN [k \in DOMAIN fs |-> field_name(fs[k]).out]

FilesParagraphNames == {NAME("Files"), NAME("Copyright"), NAME("License"), NAME("Comment")}

ContainsFilesFields(st) ==
    {NAME("Files"), NAME("Copyright"), NAME("License")} \subseteq FieldNamesOf(st)

\* Files, Copyright and License, with or without Comment, each once, in any order
IsFilesStanza(st) ==
    /\ Flatten(FieldStrings(st)) = st
    /\ FieldNamesOf(st) \subseteq FilesParagraphNames
    /\ Injective(FieldNameSeq(st))
    /\ ContainsFilesFields(st)

\* exactly one License field: its first line and its continuation lines
IsLicenseStanza(st) ==
    /\ Len(FieldStrings(st)) = 1
    /\ FieldStrings(st)[1] = st
    /\ FieldNameSeq(st)[1] = NAME("License")

(* C11: body_paragraph resolves every stanza of Files, Copyright and       *)
(* License (with or without Comment, each once) to the Files variant,      *)
(* every stanza of exactly one License field to the LicenseDetail variant, *)
(* and fails on every stanza that neither holds Files, Copyright and       *)
(* License nor is a single License field.                                  *)
C11_BodyParagraphResolution ==
    called = "body_paragraph" =>
        /\ IsFilesStanza(InputStanza) => (result.ok /\ result.out.variant = "Files")
        /\ IsLicenseStanza(InputStanza)
              => (result.ok /\ result.out.variant = "LicenseDetail")
        /\ (~ContainsFilesFields(InputStanza) /\ ~IsLicenseStanza(InputStanza))
              => ~result.ok

(* C12: every body paragraph copyright_file returns was preceded in the    *)
(* input by at least one blank line: the body paragraphs are never more    *)
(* than the stanzas that follow the first stanza of the document, and a    *)
(* document with no blank line between its fields has no body paragraph.   *)
C12_BlankLineSeparatorsRequired ==
    (DocDone /\ result.ok)
        => Len(result.out.body_paragraphs) + 1 <= Len(StanzasOf(input))

-----------------------------------------------------------------------------
(* License stanzas handed to license_detail_paragraph                      *)

MaxLicenseLines == 3     \* continuation lines of a License stanza: 1..MaxLicenseLines

\* text, text with trailing white space, and the blank-line escape
LicenseContents == {<<"a">>, <<"a", SP>>, <<DOT>>}

LicenseContLines == {ContLine(k, c) : k \in 1..MaxIndent, c \in LicenseContents}

\* "License: l", then the continuation lines
LicenseStanzas ==
    {NAME("License") \o <<COLON, SP>> \o JoinLines(<<<<"l">>>> \o cs, t) :
        cs \in UNION {[1..n -> LicenseContLines] : n \in 1..MaxLicenseLines},
        t \in Terminators}

InitLicense ==
    /\ input \in LicenseStanzas
    /\ called = "none"
    /\ arg = <<>>
    /\ result = Err

CallLicenseDetailParagraph ==
    /\ called = "none"
    /\ called' = "license_detail_paragraph"
    /\ result' = license_detail_paragraph(input)
    /\ UNCHANGED <<input, arg>>

NextLicense == CallLicenseDetailParagraph

SpecLicense == InitLicense /\ [][NextLicense]_vars

\* the physical lines of the License value: the first line, then c1..ck
LicenseLines == PhysLines(Drop(input, Len(NAME("License")) + 2))

\* the cleaned continuation line l of a block of indent n, right-trimmed
CleanedTextLine(n, l) ==
    IF LineContent(l) = <<DOT>> THEN <<>> ELSE trim_end(Expected(n, l))

\* the cleaned, right-trimmed continuation lines joined by single newlines
ExpectedLicenseText ==
    LET ls == LicenseLines IN
    JoinLines([j \in 1..(Len(ls) - 1) |-> CleanedTextLine(LeadSpaces(ls[2]), ls[j + 1])],
              <<>>)

(* C13: for a License stanza with first line S and continuation lines      *)
(* c1..ck, k >= 1, license_detail_paragraph returns name exactly S and     *)
(* text equal to the cleaned lines c1..ck, each right-trimmed, joined by   *)
(* single newlines, with no trailing terminator.                           *)
C13_LicenseDetailDecomposition ==
    (called = "license_detail_paragraph" /\ Len(LicenseLines) >= 2) =>
        /\ result.ok
        /\ result.out.name = LineText(LicenseLines[1])
        /\ result.out.text = ExpectedLicenseText

-----------------------------------------------------------------------------
(* Files stanzas handed to files_paragraph                                 *)

\* the member of a FilesParagraph that holds the field of type T
FilesMember(p, T) ==
    CASE T = "Files" -> Some(p.files)
      [] T = "Copyright" -> Some(p.copyright)
      [] T = "License" -> Some(p.license)
      [] T = "Comment" -> p.comment

(* C14: for every stanza of one Files, one Copyright and one License field *)
(* and at most one Comment field, files_paragraph succeeds, consumes the   *)
(* whole stanza, captures every field, and returns the same FilesParagraph *)
(* for every reordering of the stanza's fields.                            *)
C14_FilesFieldOrderInvariance ==
    (called = "files_paragraph" /\ IsFilesStanza(input)) =>
        LET fs == FieldStrings(input) IN
        /\ result.ok
        /\ result.rest = <<>>
        /\ \A k \in DOMAIN fs :
              FilesMember(result.out, FieldType(fs[k]))
                  = Some(parse(FieldType(fs[k]), fs[k]).out)
        /\ result.out.comment.some = (NAME("Comment") \in FieldNamesOf(input))
        /\ \A gs \in Reorderings(fs) :
              /\ files_paragraph(Flatten(gs)).ok
              /\ files_paragraph(Flatten(gs)).rest = <<>>
              /\ files_paragraph(Flatten(gs)).out = result.out

\* Comment first and the mandatory fields out of their declaration order
C14_Witness ==
    /\ called = "files_paragraph"
    /\ input = Stanza(<<"Comment", "License", "Files", "Copyright">>)
    /\ result.ok
    /\ result.rest = <<>>
    /\ result.out = [files |-> <<FieldValue("Files")>>,
                     copyright |-> <<FieldValue("Copyright")>>,
                     license |-> FieldValue("License") \o <<NL>>,
                     comment |-> Some(FieldValue("Comment") \o <<NL>>)]

-----------------------------------------------------------------------------
(* The declaration order of the header fields                              *)

DeclaredOrder ==
    <<"Format", "UpstreamName", "UpstreamContact", "Source", "Disclaimer",
      "Comment", "License", "Copyright">>

DeclIndex(T) == CHOOSE k \in DOMAIN DeclaredOrder : DeclaredOrder[k] = T

\* the types of the fields of a stanza, in their physical order
FieldTypeSeq(st) ==
    LET fs == FieldStrings(st) IN [k \in DOMAIN fs |-> FieldType(fs[k])]

\* the optional fields appear in declaration order
OptionalInOrder(ts) ==
    \A a, b \in DOMAIN ts :
        (a < b /\ ts[a] # "Format" /\ ts[b] # "Format")
            => DeclIndex(ts[a]) < DeclIndex(ts[b])

\* field k follows a field that is declared after it
OutOfOrder(ts, k) ==
    /\ ts[k] # "Format"
    /\ \E j \in 1..(k - 1) : ts[j] # "Format" /\ DeclIndex(ts[j]) > DeclIndex(ts[k])

\* no field before Format is out of order
FormatReachable(ts) ==
    \A k \in DOMAIN ts :
        (\E f \in DOMAIN ts : ts[f] = "Format" /\ k < f) => ~OutOfOrder(ts, k)

\* the text of the stanza from its field k on
FromField(fs, k) == Flatten(SubSeq(fs, k, Len(fs)))

IsSuffix(t, s) == Len(t) <= Len(s) /\ Drop(s, Len(s) - Len(t)) = t

(* C15: for a stanza of distinct header fields with Format, header_paragraph *)
(* captures every field and consumes the whole stanza exactly when the     *)
(* optional fields appear in declaration order; in every other ordering in *)
(* which no field before Format is out of order it succeeds, returns every *)
(* out-of-order field as absent and leaves it in the remaining input.      *)
C15_DeclarationOrderResolution ==
    (called = "header_paragraph" /\ IsHeaderStanza(input)) =>
        LET fs == FieldStrings(input)
            ts == FieldTypeSeq(input)
        IN
        /\ OptionalInOrder(ts) <=>
              (/\ result.ok
               /\ result.rest = <<>>
               /\ \A k \in DOMAIN fs :
                     HeaderMember(result.out, ts[k]) = Some(parse(ts[k], fs[k]).out))
        /\ (~OptionalInOrder(ts) /\ FormatReachable(ts)) =>
              (/\ result.ok
               /\ IsSuffix(result.rest, input)
               /\ \A k \in DOMAIN fs :
                     OutOfOrder(ts, k) =>
                        (/\ HeaderMember(result.out, ts[k]) = None
                         /\ IsSuffix(FromField(fs, k), result.rest)))

\* Source before Upstream-Name: Upstream-Name is absent and left in the input
C15_Witness ==
    /\ called = "header_paragraph"
    /\ input = Stanza(<<"Format", "Source", "UpstreamName">>)
    /\ result.ok
    /\ result.out.source = Some(FieldValue("Source") \o <<NL>>)
    /\ result.out.upstream_name = None
    /\ result.rest = FieldLine("UpstreamName")

====
